---- MODULE Spec2Model ----
(***************************************************************************)
(* NFL SportsRadar API: the expiry cache of App/api/api_routes.py, the     *)
(* query pipeline of App/services/Nfl_query_service.py and the context     *)
(* summarizer of App/services/LLm_service.py.                              *)
(*                                                                         *)
(* Python strings are sequences of one-character strings, so that len(),   *)
(* slicing, `in`, str(), repr() and json.dumps() are computed and not      *)
(* assumed.  Time is counted in hours (every expiry of the routes is a     *)
(* whole number of hours).                                                 *)
(***************************************************************************)
EXTENDS Integers, Sequences, FiniteSets, TLC

VARIABLES cache, now, calls, last, cleared, input, output, req, prev

vars == <<cache, now, calls, last, cleared, input, output, req, prev>>

(* ---------------------------------------------------------------- bounds *)
MaxNow == 13
NumCallers == 2

(* ------------------------------------------------------- Python values   *)
PyStr(s) == [t |-> "str", s |-> s]
PyInt(n) == [t |-> "int", n |-> n]
PyNone == [t |-> "none"]
PyBool(b) == [t |-> "bool", b |-> b]
PyList(items) == [t |-> "list", items |-> items]
PyDict(keys, vals) == [t |-> "dict", keys |-> keys, vals |-> vals]
EmptyStr == PyStr(<<>>)
EmptyList == PyList(<<>>)
EmptyDict == PyDict(<<>>, <<>>)

RECURSIVE Digits(_)
Digits(n) ==
    IF n < 10 THEN <<<<"0","1","2","3","4","5","6","7","8","9">>[n + 1]>>
    ELSE Digits(n \div 10) \o <<<<"0","1","2","3","4","5","6","7","8","9">>[(n % 10) + 1]>>

IntStr(n) == IF n < 0 THEN <<"-">> \o Digits(0 - n) ELSE Digits(n)

Contains(s, ch) == \E i \in 1..Len(s) : s[i] = ch

RECURSIVE EscapeWith(_, _)
EscapeWith(s, q) ==
    IF s = <<>> THEN <<>>
    ELSE (IF Head(s) = "\\" \/ Head(s) = q THEN <<"\\", Head(s)>> ELSE <<Head(s)>>)
         \o EscapeWith(Tail(s), q)

StrRepr(s) ==
    LET q == IF Contains(s, "'") /\ ~Contains(s, "\"") THEN "\"" ELSE "'"
    IN  <<q>> \o EscapeWith(s, q) \o <<q>>

Repr(v) ==
    CASE v.t = "str" -> StrRepr(v.s)
      [] v.t = "int" -> IntStr(v.n)
      [] v.t = "bool" -> IF v.b THEN <<"T","r","u","e">> ELSE <<"F","a","l","s","e">>
      [] v.t = "none" -> <<"N","o","n","e">>

RECURSIVE JoinReprs(_)
JoinReprs(vs) ==
    IF vs = <<>> THEN <<>>
    ELSE IF Len(vs) = 1 THEN Repr(vs[1])
    ELSE Repr(vs[1]) \o <<","," ">> \o JoinReprs(Tail(vs))

TupleStr(args) ==
    IF Len(args) = 1 THEN <<"(">> \o Repr(args[1]) \o <<",",")">>
    ELSE <<"(">> \o JoinReprs(args) \o <<")">>

RECURSIVE JoinItems(_)
JoinItems(kw) ==
    IF kw = <<>> THEN <<>>
    ELSE StrRepr(kw[1][1]) \o <<":"," ">> \o Repr(kw[1][2])
         \o (IF Len(kw) = 1 THEN <<>> ELSE <<","," ">> \o JoinItems(Tail(kw)))

KwargsStr(kwargs) == <<"{">> \o JoinItems(kwargs) \o <<"}">>

(* ------------------------------------------------------------ the cache  *)
f_get_teams == <<"g","e","t","_","t","e","a","m","s">>
f_get_schedule == <<"g","e","t","_","s","c","h","e","d","u","l","e">>
f_get_team_profile == <<"g","e","t","_","t","e","a","m","_","p","r","o","f","i","l","e">>
f_get_player_profile == <<"g","e","t","_","p","l","a","y","e","r","_","p","r","o","f","i","l","e">>
f_get_game_boxscore == <<"g","e","t","_","g","a","m","e","_","b","o","x","s","c","o","r","e">>
f_get_standings == <<"g","e","t","_","s","t","a","n","d","i","n","g","s">>
f_get_weekly_injuries == <<"g","e","t","_","w","e","e","k","l","y","_","i","n","j","u","r","i","e","s">>

Expiry(fn) ==
    CASE fn = f_get_teams -> 24
      [] fn = f_get_schedule -> 12
      [] fn = f_get_team_profile -> 24
      [] fn = f_get_player_profile -> 24
      [] fn = f_get_game_boxscore -> 1
      [] fn = f_get_standings -> 1
      [] fn = f_get_weekly_injuries -> 1

Params(fn) ==
    CASE fn = f_get_teams -> <<>>
      [] fn = f_get_schedule -> <<<<"y","e","a","r">>, <<"s","e","a","s","o","n","_","t","y","p","e">>>>
      [] fn = f_get_team_profile -> <<<<"t","e","a","m","_","i","d">>>>
      [] fn = f_get_player_profile -> <<<<"p","l","a","y","e","r","_","i","d">>>>
      [] fn = f_get_game_boxscore -> <<<<"g","a","m","e","_","i","d">>>>
      [] fn = f_get_standings -> <<<<"y","e","a","r">>, <<"s","e","a","s","o","n","_","t","y","p","e">>>>
      [] fn = f_get_weekly_injuries -> <<<<"y","e","a","r">>, <<"s","e","a","s","o","n","_","t","y","p","e">>, <<"w","e","e","k">>>>

Call(fn, args, kwargs) == [fn |-> fn, args |-> args, kwargs |-> kwargs]

CacheKey(call) ==
    call.fn \o <<":">> \o TupleStr(call.args) \o <<":">> \o KwargsStr(call.kwargs)

EmptyCache == [k \in {} |-> [ts |-> 0, value |-> PyNone]]

IsFreshInverted(call) ==
    /\ CacheKey(call) \in DOMAIN cache
    /\ now - cache[CacheKey(call)].ts > Expiry(call.fn)

IsFreshInclusive(call) ==
    /\ CacheKey(call) \in DOMAIN cache
    /\ now - cache[CacheKey(call)].ts <= Expiry(call.fn)

IsFresh(call) ==
    /\ CacheKey(call) \in DOMAIN cache
    /\ now - cache[CacheKey(call)].ts < Expiry(call.fn)

Store(key, entry) == [k \in DOMAIN cache \cup {key} |-> IF k = key THEN entry ELSE cache[k]]

(* Route calls as the framework makes them: every path parameter by name,  *)
(* in declaration order.                                                   *)
RouteCalls ==
    { Call(f_get_schedule, <<>>, << <<<<"y","e","a","r">>, PyInt(2023)>>, <<<<"s","e","a","s","o","n","_","t","y","p","e">>, PyStr(<<"R","E","G">>)>> >>),
      Call(f_get_game_boxscore, <<>>, << <<<<"g","a","m","e","_","i","d">>, PyStr(<<"g","1">>)>> >>) }

(* What the upstream provider may answer (response.json()).                *)
Responses ==
    { PyDict(<<<<"i","d">>>>, <<PyInt(1)>>),
      PyDict(<<<<"i","d">>>>, <<PyInt(2)>>) }

Callers == 1..NumCallers

(* The clock readings explored: the hours at and right after a multiple of *)
(* the longest expiry among RouteCalls, so that every age below, at and    *)
(* above each expiry occurs.                                               *)
Instants == {t \in 0..MaxNow : t % 12 \in {0, 1}}

NoCall == Call(<<>>, <<>>, <<>>)
Idle == [pc |-> "idle", call |-> NoCall]
NoEvent == [ev |-> "none", fn |-> <<>>, key |-> <<>>, value |-> PyNone, first |-> FALSE,
            found |-> "n/a"]

NoRequest ==
    [pc |-> "idle", query |-> <<>>, query_type |-> "", params |-> EmptyDict, call |-> NoCall,
     context_data |-> PyNone, msg |-> [kind |-> "none", text |-> <<>>, truncated |-> FALSE],
     response |-> <<>>, stages |-> <<>>, gateway |-> "none", generator |-> "none",
     error |-> <<>>]

NoPrev == [call |-> NoCall, at |-> 0]

(* What the lookup of lines 32-34 meets: no entry, or an entry and its age. *)
Found(call) ==
    IF CacheKey(call) \notin DOMAIN cache THEN "absent"
    ELSE IF now - cache[CacheKey(call)].ts < Expiry(call.fn) THEN "young" ELSE "expired"

FirstAfterClear(key) == cleared.ran /\ key \notin cleared.started
NoteStarted(key) == [cleared EXCEPT !.started = IF cleared.ran THEN @ \cup {key} ELSE @]

(* wrapper, lines 27-38: build the key, look it up, return the stored      *)
(* value or call the wrapped function and suspend at its upstream request. *)
WrapperCall(c, call) ==
    /\ calls[c].pc = "idle"
    /\ LET key == CacheKey(call) IN
       /\ IF IsFresh(call)
          THEN /\ last' = [ev |-> "hit", fn |-> call.fn, key |-> key,
                           value |-> cache[key].value, first |-> FirstAfterClear(key),
                           found |-> Found(call)]
               /\ calls' = calls
          ELSE /\ last' = [ev |-> "miss", fn |-> call.fn, key |-> key,
                           value |-> PyNone, first |-> FirstAfterClear(key),
                           found |-> Found(call)]
               /\ calls' = [calls EXCEPT ![c] = [pc |-> "awaiting", call |-> call]]
       /\ cleared' = NoteStarted(key)
    /\ UNCHANGED <<cache, now, input, output, req, prev>>

StoreResultFirstWins(key, value) ==
    IF key \in DOMAIN cache THEN cache ELSE Store(key, [ts |-> now, value |-> value])

StoreResult(key, value) == Store(key, [ts |-> now, value |-> value])

(* What the store of line 41 meets: an entry young enough to be served can *)
(* only have been written while this call was suspended at line 38.        *)
Raced(call, value) ==
    IF Found(call) # "young" THEN "n/a"
    ELSE IF cache[CacheKey(call)].value = value THEN "same" ELSE "other"

(* wrapper, lines 38-42: the wrapped function returned `value`.            *)
WrapperReturn(c, value) ==
    /\ calls[c].pc = "awaiting"
    /\ LET key == CacheKey(calls[c].call) IN
       /\ cache' = StoreResult(key, value)
       /\ last' = [NoEvent EXCEPT !.ev = "stored", !.key = key, !.value = value,
                                  !.found = Raced(calls[c].call, value)]
    /\ calls' = [calls EXCEPT ![c] = Idle]
    /\ UNCHANGED <<now, cleared, input, output, req, prev>>

CacheAfterFailureNegative(key) == Store(key, [ts |-> now, value |-> PyNone])

CacheAfterFailure(key) == cache

(* wrapper, line 38: the wrapped function raised (get_data raises an       *)
(* HTTPException for every failure); the exception leaves the wrapper.     *)
WrapperRaise(c) ==
    /\ calls[c].pc = "awaiting"
    /\ LET key == CacheKey(calls[c].call) IN
       /\ cache' = CacheAfterFailure(key)
       /\ last' = [NoEvent EXCEPT !.ev = "raised", !.key = key]
    /\ calls' = [calls EXCEPT ![c] = Idle]
    /\ UNCHANGED <<now, cleared, input, output, req, prev>>

clear_cache ==
    /\ cache' = EmptyCache
    /\ cleared' = [ran |-> TRUE, started |-> {}]
    /\ last' = [NoEvent EXCEPT !.ev = "clear"]
    /\ /\ prev' = NoPrev
    /\ UNCHANGED <<now, calls, input, output, req>>

(* datetime.now() advances between the steps of the event loop.            *)
Tick(t) ==
    /\ t > now
    /\ now' = t
    /\ last' = [NoEvent EXCEPT !.ev = "tick"]
    /\ UNCHANGED <<cache, calls, cleared, input, output, req, prev>>

InitShared ==
    /\ cache = EmptyCache
    /\ now = 0
    /\ calls = [c \in Callers |-> Idle]
    /\ last = NoEvent
    /\ cleared = [ran |-> FALSE, started |-> {}]
    /\ req = NoRequest
    /\ prev = NoPrev

InitCache ==
    /\ InitShared
    /\ input = <<>>
    /\ output = <<>>

NextCache ==
    \/ \E c \in Callers, call \in RouteCalls : WrapperCall(c, call)
    \/ \E c \in Callers, value \in Responses : WrapperReturn(c, value)
    \/ \E c \in Callers : WrapperRaise(c)
    \/ clear_cache
    \/ \E t \in Instants : Tick(t)

SpecCache == InitCache /\ [][NextCache]_vars

(* ------------------------------------------- Python operations on values *)
Raise(exc) == [t |-> "raise", exc |-> exc]
Raised(v) == v.t = "raise"

(* bool(v), as `if context_data:` takes it.                                *)
Truthy(v) ==
    CASE v.t = "none" -> FALSE
      [] v.t = "bool" -> v.b
      [] v.t = "int" -> v.n # 0
      [] v.t = "str" -> v.s # <<>>
      [] v.t = "list" -> v.items # <<>>
      [] v.t = "dict" -> v.keys # <<>>

HasKey(d, key) == \E i \in 1..Len(d.keys) : d.keys[i] = key
Item(d, key) == d.vals[CHOOSE i \in 1..Len(d.keys) : d.keys[i] = key]

(* v.get(key, default): only a dict has .get.                              *)
Get(v, key, default) ==
    IF v.t # "dict" THEN Raise("AttributeError")
    ELSE IF HasKey(v, key) THEN Item(v, key) ELSE default

Min(a, b) == IF a < b THEN a ELSE b

(* v[:n]: lists and strings can be sliced, nothing else.                   *)
Slice(v, n) ==
    CASE v.t = "list" -> PyList(SubSeq(v.items, 1, Min(n, Len(v.items))))
      [] v.t = "str" -> PyStr(SubSeq(v.s, 1, Min(n, Len(v.s))))
      [] OTHER -> Raise("TypeError")

(* `for x in v`: the elements of a list, the characters of a string, the   *)
(* keys of a dict; nothing else is iterable.                               *)
Iter(v) ==
    CASE v.t = "list" -> v.items
      [] v.t = "str" -> [i \in 1..Len(v.s) |-> PyStr(<<v.s[i]>>)]
      [] v.t = "dict" -> [i \in 1..Len(v.keys) |-> PyStr(v.keys[i])]
Iterable(v) == v.t \in {"list", "str", "dict"}
AllDicts(items) == \A i \in 1..Len(items) : items[i].t = "dict"

(* {k1: d.get(k1, ""), ...} for the keys `ks`, in that order.              *)
Pick(d, ks) == PyDict(ks, [i \in 1..Len(ks) |-> Get(d, ks[i], EmptyStr)])

(* ------------------------------------------------- json.dumps(v, indent=2) *)
NeedsEscape(ch) == ch \in {"\"", "\\", "\n"}

RECURSIVE JsonEscape(_)
JsonEscape(s) ==
    IF \A i \in 1..Len(s) : ~NeedsEscape(s[i]) THEN s
    ELSE (CASE Head(s) = "\"" -> <<"\\", "\"">>
            [] Head(s) = "\\" -> <<"\\", "\\">>
            [] Head(s) = "\n" -> <<"\\", "n">>
            [] OTHER -> <<Head(s)>>) \o JsonEscape(Tail(s))

JsonStr(s) == <<"\"">> \o JsonEscape(s) \o <<"\"">>

Indent(level) == [i \in 1..(2 * level) |-> " "]

RECURSIVE Dumps(_, _)
RECURSIVE DumpItems(_, _)
RECURSIVE DumpMembers(_, _, _)
DumpItems(items, level) ==
    IF items = <<>> THEN <<>>
    ELSE Indent(level) \o Dumps(Head(items), level)
         \o (IF Len(items) = 1 THEN <<>> ELSE <<",","\n">> \o DumpItems(Tail(items), level))
DumpMembers(keys, vals, level) ==
    IF keys = <<>> THEN <<>>
    ELSE Indent(level) \o JsonStr(Head(keys)) \o <<":"," ">> \o Dumps(Head(vals), level)
         \o (IF Len(keys) = 1 THEN <<>> ELSE <<",","\n">> \o DumpMembers(Tail(keys), Tail(vals), level))
Dumps(v, level) ==
    CASE v.t = "none" -> <<"n","u","l","l">>
      [] v.t = "bool" -> (IF v.b THEN <<"t","r","u","e">> ELSE <<"f","a","l","s","e">>)
      [] v.t = "int" -> IntStr(v.n)
      [] v.t = "str" -> JsonStr(v.s)
      [] v.t = "list" ->
           IF v.items = <<>> THEN <<"[","]">>
           ELSE <<"[","\n">> \o DumpItems(v.items, level + 1) \o <<"\n">> \o Indent(level) \o <<"]">>
      [] v.t = "dict" ->
           IF v.keys = <<>> THEN <<"{","}">>
           ELSE <<"{","\n">> \o DumpMembers(v.keys, v.vals, level + 1) \o <<"\n">> \o Indent(level) \o <<"}">>

(* ------------------------------------------------- the context summarizer *)
Fallback(text) == PyDict(<<<<"s","u","m","m","a","r","y">>>>, <<PyStr(text)>>)

TeamFields == <<<<"i","d">>, <<"n","a","m","e">>, <<"m","a","r","k","e","t">>, <<"a","l","i","a","s">>, <<"c","o","n","f","e","r","e","n","c","e">>, <<"d","i","v","i","s","i","o","n">>>>

summarize_teams_data(data) ==
    LET teams == Slice(Get(data, <<"t","e","a","m","s">>, EmptyList), 20) IN
    IF Raised(teams) \/ ~AllDicts(Iter(teams))
    THEN Fallback(<<"T","e","a","m","s"," ","d","a","t","a"," ","a","v","a","i","l","a","b","l","e"," ","b","u","t"," ","c","o","u","l","d"," ","n","o","t"," ","b","e"," ","s","u","m","m","a","r","i","z","e","d">>)
    ELSE PyDict(<<<<"t","e","a","m","s">>>>,
                <<PyList([i \in 1..Len(Iter(teams)) |-> Pick(Iter(teams)[i], TeamFields)])>>)

DivisionOk(division) ==
    /\ division.t = "dict"
    /\ Iterable(Get(division, <<"t","e","a","m","s">>, EmptyList))
    /\ AllDicts(Iter(Get(division, <<"t","e","a","m","s">>, EmptyList)))

ConferenceOk(conference) ==
    /\ conference.t = "dict"
    /\ Iterable(Get(conference, <<"d","i","v","i","s","i","o","n","s">>, EmptyList))
    /\ \A i \in 1..Len(Iter(Get(conference, <<"d","i","v","i","s","i","o","n","s">>, EmptyList))) :
          DivisionOk(Iter(Get(conference, <<"d","i","v","i","s","i","o","n","s">>, EmptyList))[i])

DivisionSummary(division) ==
    LET teams == Iter(Get(division, <<"t","e","a","m","s">>, EmptyList)) IN
    PyDict(<<<<"n","a","m","e">>, <<"a","l","i","a","s">>, <<"t","e","a","m","s">>>>,
           <<Get(division, <<"n","a","m","e">>, EmptyStr), Get(division, <<"a","l","i","a","s">>, EmptyStr),
             PyList([i \in 1..Len(teams) |-> Pick(teams[i], <<<<"n","a","m","e">>, <<"m","a","r","k","e","t">>, <<"a","l","i","a","s">>>>)])>>)

ConferenceSummary(conference) ==
    LET divisions == Iter(Get(conference, <<"d","i","v","i","s","i","o","n","s">>, EmptyList)) IN
    PyDict(<<<<"n","a","m","e">>, <<"a","l","i","a","s">>, <<"d","i","v","i","s","i","o","n","s">>>>,
           <<Get(conference, <<"n","a","m","e">>, EmptyStr), Get(conference, <<"a","l","i","a","s">>, EmptyStr),
             PyList([i \in 1..Len(divisions) |-> DivisionSummary(divisions[i])])>>)

summarize_league_structure(data) ==
    LET conferences == Get(data, <<"c","o","n","f","e","r","e","n","c","e","s">>, EmptyList) IN
    IF ~Iterable(conferences)
       \/ \E i \in 1..Len(Iter(conferences)) : ~ConferenceOk(Iter(conferences)[i])
    THEN Fallback(<<"L","e","a","g","u","e"," ","s","t","r","u","c","t","u","r","e"," ","d","a","t","a"," ","a","v","a","i","l","a","b","l","e"," ","b","u","t"," ","c","o","u","l","d"," ","n","o","t"," ","b","e"," ","s","u","m","m","a","r","i","z","e","d">>)
    ELSE PyDict(<<<<"c","o","n","f","e","r","e","n","c","e","s">>>>,
                <<PyList([i \in 1..Len(Iter(conferences)) |->
                             ConferenceSummary(Iter(conferences)[i])])>>)

GameOk(game) ==
    /\ game.t = "dict"
    /\ Get(game, <<"h","o","m","e">>, EmptyDict).t = "dict"
    /\ Get(game, <<"a","w","a","y">>, EmptyDict).t = "dict"

GameSummary(game) ==
    PyDict(<<<<"i","d">>, <<"s","t","a","t","u","s">>, <<"s","c","h","e","d","u","l","e","d">>, <<"h","o","m","e","_","t","e","a","m">>, <<"a","w","a","y","_","t","e","a","m">>>>,
           <<Get(game, <<"i","d">>, EmptyStr), Get(game, <<"s","t","a","t","u","s">>, EmptyStr),
             Get(game, <<"s","c","h","e","d","u","l","e","d">>, EmptyStr),
             Pick(Get(game, <<"h","o","m","e">>, EmptyDict), <<<<"n","a","m","e">>, <<"a","l","i","a","s">>>>),
             Pick(Get(game, <<"a","w","a","y">>, EmptyDict), <<<<"n","a","m","e">>, <<"a","l","i","a","s">>>>)>>)

summarize_schedule_data(data) ==
    LET games == Slice(Get(data, <<"g","a","m","e","s">>, EmptyList), 10) IN
    IF Raised(games) \/ \E i \in 1..Len(Iter(games)) : ~GameOk(Iter(games)[i])
    THEN Fallback(<<"S","c","h","e","d","u","l","e"," ","d","a","t","a"," ","a","v","a","i","l","a","b","l","e"," ","b","u","t"," ","c","o","u","l","d"," ","n","o","t"," ","b","e"," ","s","u","m","m","a","r","i","z","e","d">>)
    ELSE PyDict(<<<<"y","e","a","r">>, <<"t","y","p","e">>, <<"g","a","m","e","s">>>>,
                <<Get(data, <<"y","e","a","r">>, EmptyStr), Get(data, <<"t","y","p","e">>, EmptyStr),
                  PyList([i \in 1..Len(Iter(games)) |-> GameSummary(Iter(games)[i])])>>)

PlayerFields == <<<<"n","a","m","e">>, <<"p","o","s","i","t","i","o","n">>, <<"s","t","a","t","u","s">>, <<"i","n","j","u","r","y">>>>

InjuryTeamOk(team) ==
    /\ team.t = "dict"
    /\ ~Raised(Slice(Get(team, <<"p","l","a","y","e","r","s">>, EmptyList), 10))
    /\ AllDicts(Iter(Slice(Get(team, <<"p","l","a","y","e","r","s">>, EmptyList), 10)))

InjuryTeamSummary(team) ==
    LET players == Iter(Slice(Get(team, <<"p","l","a","y","e","r","s">>, EmptyList), 10)) IN
    PyDict(<<<<"n","a","m","e">>, <<"a","l","i","a","s">>, <<"i","n","j","u","r","i","e","s">>>>,
           <<Get(team, <<"n","a","m","e">>, EmptyStr), Get(team, <<"a","l","i","a","s">>, EmptyStr),
             PyList([i \in 1..Len(players) |-> Pick(players[i], PlayerFields)])>>)

summarize_injury_data(data) ==
    LET teams == Slice(Get(data, <<"t","e","a","m","s">>, EmptyList), 10) IN
    IF Raised(teams) \/ \E i \in 1..Len(Iter(teams)) : ~InjuryTeamOk(Iter(teams)[i])
    THEN Fallback(<<"I","n","j","u","r","y"," ","d","a","t","a"," ","a","v","a","i","l","a","b","l","e"," ","b","u","t"," ","c","o","u","l","d"," ","n","o","t"," ","b","e"," ","s","u","m","m","a","r","i","z","e","d">>)
    ELSE PyDict(<<<<"w","e","e","k">>, <<"t","e","a","m","s","_","w","i","t","h","_","i","n","j","u","r","i","e","s">>>>,
                <<Get(data, <<"w","e","e","k">>, EmptyStr),
                  PyList([i \in 1..Len(Iter(teams)) |-> InjuryTeamSummary(Iter(teams)[i])])>>)

(* Lines 231-237: what each of the first keys adds to the summary, as      *)
(* <<key, value>> pairs in the order of insertion.                         *)
RECURSIVE ListProbes(_, _)
ListProbes(data, keys) ==
    IF keys = <<>> THEN <<>>
    ELSE LET key == Head(keys)
             v == Item(data, key)
         IN  (IF v.t # "list" THEN <<>>
              ELSE << <<key \o <<"_","c","o","u","n","t">>, PyInt(Len(v.items))>> >>
                   \o (IF v.items # <<>> /\ v.items[1].t = "dict"
                       THEN << <<key \o <<"_","c","o","n","t","a","i","n","s">>,
                                 PyList([i \in 1..Min(5, Len(v.items[1].keys)) |->
                                            PyStr(v.items[1].keys[i])])>> >>
                       ELSE <<>>))
             \o ListProbes(data, Tail(keys))

create_generic_summary(data) ==
    IF data.t # "dict"
    THEN PyDict(<<<<"d","a","t","a","_","s","u","m","m","a","r","y">>>>, <<PyStr(<<"N","F","L"," ","d","a","t","a"," ","a","v","a","i","l","a","b","l","e">>)>>)
    ELSE LET keys == SubSeq(data.keys, 1, Min(10, Len(data.keys)))
             probes == ListProbes(data, keys)
         IN  PyDict(<<<<"d","a","t","a","_","s","u","m","m","a","r","y">>, <<"a","v","a","i","l","a","b","l","e","_","d","a","t","a">>>>
                      \o [i \in 1..Len(probes) |-> probes[i][1]],
                    <<PyStr(<<"N","F","L"," ","d","a","t","a"," ","a","v","a","i","l","a","b","l","e">>),
                      PyList([i \in 1..Len(keys) |-> PyStr(keys[i])])>>
                      \o [i \in 1..Len(probes) |-> probes[i][2]])

IsList(data, key) == HasKey(data, key) /\ Item(data, key).t = "list"
IsMapping(data, key) == HasKey(data, key) /\ Item(data, key).t = "dict"

(* Lines 84-94, which run inside the try of line 83.                       *)
Dispatch(data) ==
    IF IsList(data, <<"t","e","a","m","s">>) THEN summarize_teams_data(data)
    ELSE IF IsList(data, <<"c","o","n","f","e","r","e","n","c","e","s">>) THEN summarize_league_structure(data)
    ELSE IF IsMapping(data, <<"s","c","h","e","d","u","l","e">>) THEN summarize_schedule_data(data)
    ELSE IF HasKey(data, <<"w","e","e","k">>) /\ HasKey(data, <<"i","n","j","u","r","i","e","s">>) THEN summarize_injury_data(data)
    ELSE create_generic_summary(data)

(* Line 81 reads data.get(...) before the try: a payload that is not a     *)
(* dict raises AttributeError out of the function.                         *)
summarize_context_data(data) ==
    IF Raised(Get(data, <<"d","a","t","a","_","t","y","p","e">>, PyStr(<<"u","n","k","n","o","w","n">>))) THEN Raise("AttributeError")
    ELSE IF Raised(Dispatch(data))
    THEN PyDict(<<<<"s","u","m","m","a","r","y">>, <<"e","r","r","o","r">>>>,
                <<PyStr(<<"D","a","t","a"," ","a","v","a","i","l","a","b","l","e"," ","b","u","t"," ","c","o","u","l","d"," ","n","o","t"," ","b","e"," ","s","u","m","m","a","r","i","z","e","d"," ","d","u","e"," ","t","o"," ","a","n"," ","e","r","r","o","r">>),
                  PyStr(<<"e","r","r","o","r">>)>>)
    ELSE Dispatch(data)

(* ----------------------------------- generate_response, lines 43 to 54   *)
MaxContextChars == 20000
TruncationMarker == <<".",".",".","[","a","d","d","i","t","i","o","n","a","l"," ","d","a","t","a"," ","t","r","u","n","c","a","t","e","d"," ","f","o","r"," ","s","i","z","e","]">>
ContextPrefix == <<"H","e","r","e"," ","i","s"," ","t","h","e"," ","r","e","l","e","v","a","n","t"," ","N","F","L"," ","d","a","t","a",":","\n">>

Limit(context_str) ==
    IF Len(context_str) > MaxContextChars
    THEN SubSeq(context_str, 1, MaxContextChars) \o TruncationMarker
    ELSE context_str

NoContext == NoRequest.msg

(* The context message appended to `messages`: none for a falsy payload,   *)
(* an exception when the summarizer raises, else the limited text.         *)
ContextMessage(context_data) ==
    IF ~Truthy(context_data) THEN NoContext
    ELSE IF Raised(summarize_context_data(context_data))
    THEN [kind |-> "raise", text |-> <<>>, truncated |-> FALSE]
    ELSE LET context_str == ContextPrefix \o Dumps(summarize_context_data(context_data), 0)
         IN  [kind |-> "context", text |-> Limit(context_str),
              truncated |-> Len(context_str) > MaxContextChars]

(* ------------------------------------------------- key derivation alone  *)
Range(f) == {f[i] : i \in DOMAIN f}

(* Python's binding of a call to the parameters of `fn`: positional        *)
(* arguments fill the first parameters, named ones the parameters named.   *)
Bound(call) ==
    {<<Params(call.fn)[i], call.args[i]>> : i \in 1..Len(call.args)} \cup Range(call.kwargs)

(* The ways Python allows to pass `vals` to `fn`: the first n positionally *)
(* and the others by name, in either order.                                *)
Forms(fn, vals) ==
    LET named(i) == <<Params(fn)[i], vals[i]>>
        n == Len(vals)
    IN  {Call(fn, vals, <<>>)}
        \cup {Call(fn, SubSeq(vals, 1, n - 1), <<named(n)>>) : x \in {m \in {n} : m >= 1}}
        \cup {Call(fn, <<>>, <<named(1), named(2)>>) : x \in {m \in {n} : m = 2}}
        \cup {Call(fn, <<>>, <<named(2), named(1)>>) : x \in {m \in {n} : m = 2}}

YearValues == {PyInt(2023), PyStr(<<"2","0","2","3">>)}
SeasonValues == {PyStr(<<"R","E","G">>), PyStr(<<"P","R","E">>)}
IdValues == {PyStr(<<"g","1">>), PyStr(<<"g","1","'",","," ","'","x">>), PyStr(<<"i","t","'","s">>)}

KeyCalls ==
    UNION {Forms(fn, <<y, t>>) : fn \in {f_get_schedule, f_get_standings},
                                 y \in YearValues, t \in SeasonValues}
    \cup UNION {Forms(fn, <<i>>) : fn \in {f_get_team_profile, f_get_game_boxscore},
                                   i \in IdValues}
    \cup Forms(f_get_teams, <<>>)

InitKey ==
    /\ InitShared
    /\ input \in KeyCalls \X KeyCalls
    /\ output = <<>>

(* wrapper, line 29, for each of the two calls.                            *)
ComputeKeys ==
    /\ output = <<>>
    /\ output' = <<CacheKey(input[1]), CacheKey(input[2])>>
    /\ UNCHANGED <<cache, now, calls, last, cleared, input, req, prev>>

NextKey == ComputeKeys

SpecKey == InitKey /\ [][NextKey]_vars

(* ------------------------------------------------- the intent classifier *)
UpperCase == <<"A","B","C","D","E","F","G","H","I","J","K","L","M","N","O","P","Q","R","S","T","U","V","W","X","Y","Z">>
LowerCase == <<"a","b","c","d","e","f","g","h","i","j","k","l","m","n","o","p","q","r","s","t","u","v","w","x","y","z">>

LowerChar(ch) ==
    IF \E i \in 1..26 : UpperCase[i] = ch
    THEN LowerCase[CHOOSE i \in 1..26 : UpperCase[i] = ch]
    ELSE ch

(* str.lower(), line 50.                                                   *)
Lower(s) == [i \in 1..Len(s) |-> LowerChar(s[i])]

(* `term in query` for two strings.                                        *)
Occurs(term, query) ==
    \E i \in 1..(Len(query) - Len(term) + 1) : SubSeq(query, i, i + Len(term) - 1) = term

AnyOccurs(terms, query) == \E term \in terms : Occurs(term, query)

IsDigit(ch) == ch \in Range(<<"0","1","2","3","4","5","6","7","8","9">>)

(* re.search(r'20\d{2}', query): the places where the pattern matches.     *)
YearMatches(query) ==
    {i \in 1..(Len(query) - 3) :
        query[i] = "2" /\ query[i + 1] = "0" /\ IsDigit(query[i + 2]) /\ IsDigit(query[i + 3])}

FirstOf(S) == CHOOSE i \in S : \A j \in S : i <= j

InjuryParams(query) ==
    IF YearMatches(query) = {} THEN EmptyDict
    ELSE PyDict(<<<<"y","e","a","r">>>>,
                <<PyStr(SubSeq(query, FirstOf(YearMatches(query)), FirstOf(YearMatches(query)) + 3))>>)

RankingTerms == {<<"r","a","n","k","i","n","g">>, <<"r","a","n","k">>, <<"b","e","s","t">>, <<"t","o","p">>, <<"p","r","o","j","e","c","t","i","o","n","s">>}
MatchupTerms == {<<"m","a","t","c","h","u","p">>, <<"v","s">>, <<"v","e","r","s","u","s">>, <<"a","g","a","i","n","s","t">>, <<"p","l","a","y","i","n","g">>}
InjuryTerms == {<<"i","n","j","u","r","y">>, <<"i","n","j","u","r","e","d">>, <<"h","u","r","t">>}
ScheduleTerms == {<<"s","c","h","e","d","u","l","e">>, <<"g","a","m","e","s">>, <<"p","l","a","y","i","n","g">>}
DepthChartTerms == {<<"d","e","p","t","h"," ","c","h","a","r","t">>, <<"r","o","s","t","e","r">>, <<"l","i","n","e","u","p">>}

Classified(query_type, params) == [query_type |-> query_type, params |-> params]

ClassifyScheduleFirst(query) ==
    IF AnyOccurs(RankingTerms, query) THEN Classified("player_rankings", EmptyDict)
    ELSE IF AnyOccurs(ScheduleTerms, query) THEN Classified("schedule", EmptyDict)
    ELSE IF AnyOccurs(MatchupTerms, query) THEN Classified("matchups", EmptyDict)
    ELSE IF AnyOccurs(InjuryTerms, query) THEN Classified("injuries", InjuryParams(query))
    ELSE IF AnyOccurs(DepthChartTerms, query) THEN Classified("depth_chart", EmptyDict)
    ELSE Classified("general", EmptyDict)

ClassifyLowered(query) ==
    IF AnyOccurs(RankingTerms, query) THEN Classified("player_rankings", EmptyDict)
    ELSE IF AnyOccurs(MatchupTerms, query) THEN Classified("matchups", EmptyDict)
    ELSE IF AnyOccurs(InjuryTerms, query) THEN Classified("injuries", InjuryParams(query))
    ELSE IF AnyOccurs(ScheduleTerms, query) THEN Classified("schedule", EmptyDict)
    ELSE IF AnyOccurs(DepthChartTerms, query) THEN Classified("depth_chart", EmptyDict)
    ELSE Classified("general", EmptyDict)

classify_query_cased(query) == ClassifyLowered(query)

classify_query(query) == ClassifyLowered(Lower(query))

(* Questions: up to MaxWords words of the vocabulary, joined by blanks.    *)
MaxWords == 2

Vocabulary ==
    { <<"W","h","o">>, <<"T","o","p">>, <<"R","A","N","K","I","N","G">>, <<"S","t","o","p">>, <<"v","s">>, <<"P","l","a","y","i","n","g">>, <<"p","l","a","y","i","n","g">>, <<"H","u","r","t">>,
      <<"i","n","j","u","r","y">>, <<"2","0","2","4">>, <<"1","9","2","0">>, <<"G","a","m","e","s">>, <<"s","c","h","e","d","u","l","e">>, <<"R","o","s","t","e","r">>, <<"D","e","p","t","h">>, <<"c","h","a","r","t">> }

RECURSIVE QuestionsOf(_)
QuestionsOf(n) ==
    IF n = 0 THEN {<<>>}
    ELSE QuestionsOf(n - 1)
         \cup Vocabulary
         \cup {q \o <<" ">> \o w : q \in QuestionsOf(n - 1) \ {<<>>}, w \in Vocabulary}

Questions == QuestionsOf(MaxWords)

InitClassify ==
    /\ InitShared
    /\ input \in Questions
    /\ output = <<>>

Classify ==
    /\ output = <<>>
    /\ output' = <<classify_query(input)>>
    /\ UNCHANGED <<cache, now, calls, last, cleared, input, req, prev>>

NextClassify == Classify

SpecClassify == InitClassify /\ [][NextClassify]_vars

(* ------------------------------------- the context message on its own    *)
Kansas == PyDict(<<<<"i","d">>, <<"n","a","m","e">>, <<"m","a","r","k","e","t">>, <<"a","l","i","a","s">>, <<"p","l","a","y","e","r","s">>, <<"s","a","l","a","r","y">>>>,
                 <<PyStr(<<"t","1">>), PyStr(<<"C","h","i","e","f","s">>), PyStr(<<"K","a","n","s","a","s"," ","C","i","t","y">>), PyStr(<<"K","C">>),
                   PyList(<<PyDict(<<<<"n","a","m","e">>, <<"i","n","j","u","r","y">>, <<"a","g","e">>>>,
                                   <<PyStr(<<"K","e","l","c","e">>), PyStr(<<"k","n","e","e">>), PyInt(34)>>)>>),
                   PyInt(5)>>)

West == PyDict(<<<<"n","a","m","e">>, <<"a","l","i","a","s">>, <<"t","e","a","m","s">>>>,
               <<PyStr(<<"A","F","C"," ","W","e","s","t">>), PyStr(<<"W">>), PyList(<<Kansas>>)>>)

(* A record with the fields every summary reads.                           *)
Rich == PyDict(<<<<"i","d">>, <<"n","a","m","e">>, <<"a","l","i","a","s">>, <<"s","t","a","t","u","s">>, <<"d","i","v","i","s","i","o","n","s">>, <<"h","o","m","e">>, <<"a","w","a","y">>, <<"p","l","a","y","e","r","s">>>>,
               <<PyStr(<<"g","1">>), PyStr(<<"A","F","C"," ","\"","A","\"">>), PyStr(<<"A","F","C">>), PyStr(<<"c","l","o","s","e","d">>),
                 PyList(<<West>>), Kansas, PyDict(<<<<"n","a","m","e">>>>, <<PyStr(<<"L","i","o","n","s">>)>>),
                 PyList(<<PyDict(<<<<"n","a","m","e">>>>, <<PyStr(<<"K","e","l","c","e">>)>>)>>)>>)

(* Records whose nested fields have a type the summaries do not expect.    *)
Odd1 == PyDict(<<<<"n","a","m","e">>, <<"d","i","v","i","s","i","o","n","s">>, <<"h","o","m","e">>, <<"p","l","a","y","e","r","s">>>>,
               <<PyInt(7), PyStr(<<"a","b">>), PyNone, PyDict(<<<<"a">>>>, <<PyInt(1)>>)>>)
Odd2 == PyDict(<<<<"d","i","v","i","s","i","o","n","s">>, <<"a","w","a","y">>, <<"p","l","a","y","e","r","s">>>>,
               <<PyList(<<PyDict(<<<<"t","e","a","m","s">>>>, <<PyInt(5)>>)>>), PyStr(<<"x">>), PyList(<<PyNone>>)>>)

FieldValues ==
    { PyList(<<Rich, Rich>>), PyList(<<Rich, Odd1>>), PyList(<<Odd2>>), PyList(<<PyStr(<<"x">>)>>),
      PyList(<<PyList(<<Rich>>)>>), EmptyList, Rich, EmptyDict, PyStr(<<"a","b">>), EmptyStr,
      PyNone, PyInt(5), PyBool(TRUE) }

Shaped(v) ==
    { PyDict(<<<<"t","e","a","m","s">>>>, <<v>>),
      PyDict(<<<<"c","o","n","f","e","r","e","n","c","e","s">>, <<"i","d">>>>, <<v, PyStr(<<"l","e","a","g","u","e">>)>>),
      PyDict(<<<<"s","c","h","e","d","u","l","e">>, <<"y","e","a","r">>, <<"g","a","m","e","s">>>>, <<EmptyDict, PyInt(2023), v>>),
      PyDict(<<<<"s","c","h","e","d","u","l","e">>>>, <<v>>),
      PyDict(<<<<"w","e","e","k">>, <<"i","n","j","u","r","i","e","s">>, <<"t","e","a","m","s">>>>, <<PyInt(1), EmptyList, v>>),
      PyDict(<<<<"w","e","e","k","s">>, <<"e","r","r","o","r">>>>, <<v, PyStr(<<"4","0","4",":"," ","R","e","s","o","u","r","c","e"," ","n","o","t"," ","f","o","u","n","d">>)>>) }

BigText == [i \in 1..MaxContextChars |-> "x"]

BigPayloads ==
    { PyDict(<<<<"c","o","n","f","e","r","e","n","c","e","s">>>>, <<PyList(<<PyDict(<<<<"n","a","m","e">>>>, <<PyStr(BigText)>>)>>)>>),
      PyDict(<<<<"t","e","a","m","s">>>>,
             <<PyList(<<PyDict(<<<<"n","a","m","e">>>>, <<PyStr(TruncationMarker \o BigText)>>)>>)>>) }

(* Game number i of a schedule, with fields the summary does not keep.     *)
Game(i) ==
    PyDict(<<<<"i","d">>, <<"s","t","a","t","u","s">>, <<"s","c","h","e","d","u","l","e","d">>, <<"h","o","m","e">>, <<"a","w","a","y">>, <<"v","e","n","u","e">>>>,
           <<PyStr(<<"g">> \o IntStr(i)), PyStr(<<"c","l","o","s","e","d">>), PyStr(<<"2","0","2","3","-","0","9","-","1","0">>),
             PyDict(<<<<"i","d">>, <<"n","a","m","e">>, <<"a","l","i","a","s">>>>,
                    <<PyStr(<<"h">> \o IntStr(i)), PyStr(<<"C","h","i","e","f","s">>), PyStr(<<"K","C">>)>>),
             PyDict(<<<<"n","a","m","e">>, <<"a","l","i","a","s">>>>, <<PyStr(<<"L","i","o","n","s">>), PyStr(<<"D","E","T">>)>>),
             PyStr(<<"A","r","r","o","w","h","e","a","d">>)>>)

Games(n) == PyList([i \in 1..n |-> Game(i)])

MaxGames == 15
GameCounts == {0, 1, 10, 11, MaxGames}

(* Bundles with a `schedule` mapping: the games inside the mapping, or     *)
(* next to it at the top level of the bundle.                              *)
SchedulePayloads ==
    { PyDict(<<<<"s","c","h","e","d","u","l","e">>, <<"y","e","a","r">>, <<"t","y","p","e">>>>,
             <<PyDict(<<<<"g","a","m","e","s">>>>, <<Games(n)>>), PyInt(2023), PyStr(<<"R","E","G">>)>>)
        : n \in GameCounts }
    \cup { PyDict(<<<<"s","c","h","e","d","u","l","e">>, <<"g","a","m","e","s">>>>, <<PyDict(<<<<"i","d">>>>, <<PyStr(<<"s","1">>)>>), Games(n)>>)
             : n \in GameCounts }

(* Player number j of a team's injury list and a team with m of them.      *)
Player(j) ==
    PyDict(<<<<"i","d">>, <<"n","a","m","e">>, <<"p","o","s","i","t","i","o","n">>, <<"s","t","a","t","u","s">>, <<"i","n","j","u","r","y">>>>,
           <<PyStr(<<"p">> \o IntStr(j)), PyStr(<<"K","e","l","c","e">>), PyStr(<<"T","E">>), PyStr(<<"O","u","t">>),
             PyStr(<<"k","n","e","e">>)>>)

InjuredTeam(i, m) ==
    PyDict(<<<<"i","d">>, <<"n","a","m","e">>, <<"a","l","i","a","s">>, <<"p","l","a","y","e","r","s">>>>,
           <<PyStr(<<"t">> \o IntStr(i)), PyStr(<<"C","h","i","e","f","s">>), PyStr(<<"K","C">>),
             PyList([j \in 1..m |-> Player(j)])>>)

MaxReport == 11
ReportCounts == {0, 1, MaxReport}

InjuredTeams(n) == PyList([i \in 1..n |-> InjuredTeam(i, IF i = 1 THEN MaxReport ELSE 1)])

(* Bundles with `week` and `injuries`: the report's teams under            *)
(* `injuries`, or under `teams` next to it.                                *)
InjuryPayloads ==
    { PyDict(<<<<"w","e","e","k">>, <<"i","n","j","u","r","i","e","s">>>>, <<PyInt(1), InjuredTeams(n)>>) : n \in ReportCounts }
    \cup { PyDict(<<<<"w","e","e","k">>, <<"i","n","j","u","r","i","e","s">>, <<"t","e","a","m","s">>>>,
                  <<PyDict(<<<<"s","e","q","u","e","n","c","e">>>>, <<PyInt(1)>>), EmptyList, InjuredTeams(n)>>)
             : n \in ReportCounts }

(* What response.json() may hand over: any JSON value.                     *)
Payloads ==
    UNION {Shaped(v) : v \in FieldValues}
    \cup FieldValues
    \cup {PyInt(0), PyBool(FALSE), PyStr(<<"o","o","p","s">>)}
    \cup BigPayloads
    \cup SchedulePayloads
    \cup InjuryPayloads

InitSummarize ==
    /\ InitShared
    /\ input \in Payloads
    /\ output = <<>>

(* generate_response up to line 54, on the payload `input`.                *)
BuildContext ==
    /\ output = <<>>
    /\ output' = <<ContextMessage(input)>>
    /\ UNCHANGED <<cache, now, calls, last, cleared, input, req, prev>>

NextSummarize == BuildContext

SpecSummarize == InitSummarize /\ [][NextSummarize]_vars

(* -------------------------------------------------------- the gateway    *)
BASE_URL == <<"h","t","t","p","s",":","/","/","a","p","i">>
API_KEY == <<"K","E","Y">>

(* str(v) inside an f-string.                                              *)
Str(v) == IF v.t = "str" THEN v.s ELSE Repr(v)

(* The endpoint each NFLService method passes to get_data.                 *)
Endpoint(call) ==
    CASE call.fn = f_get_teams -> <<"e","n","/","l","e","a","g","u","e","/","h","i","e","r","a","r","c","h","y">>
      [] call.fn = f_get_schedule ->
           <<"e","n","/","g","a","m","e","s","/">> \o Str(call.args[1]) \o <<"/">> \o Str(call.args[2]) \o <<"/","s","c","h","e","d","u","l","e">>
      [] call.fn = f_get_weekly_injuries ->
           <<"e","n","/","s","e","a","s","o","n","s","/">> \o Str(call.args[1]) \o <<"/">> \o Str(call.args[2]) \o <<"/">>
             \o Str(call.args[3]) \o <<"/","i","n","j","u","r","i","e","s">>

Url(call) == BASE_URL \o <<"/">> \o Endpoint(call) \o <<".","j","s","o","n","?","a","p","i","_","k","e","y","=">> \o API_KEY

HTTPException(status_code, detail) ==
    [t |-> "raise", exc |-> "HTTPException", status_code |-> status_code, detail |-> detail]

(* The ways the upstream request can fail: a timeout, an HTTP status       *)
(* error, any other exception.                                             *)
Failures ==
    {[kind |-> "timeout", status |-> 0], [kind |-> "other", status |-> 0]}
    \cup {[kind |-> "status", status |-> c] : c \in {401, 403, 404, 429, 503}}

(* get_data, lines 35-51: every failure becomes an HTTPException.          *)
get_data_failure(call, failure) ==
    CASE failure.kind = "timeout" ->
           HTTPException(408, <<"R","e","q","u","e","s","t"," ","t","o"," ">> \o Url(call) \o <<" ","t","i","m","e","d"," ","o","u","t">>)
      [] failure.kind = "status" ->
           HTTPException(failure.status,
              CASE failure.status = 401 -> <<"A","P","I"," ","k","e","y"," ","i","n","v","a","l","i","d"," ","o","r"," ","e","x","p","i","r","e","d">>
                [] failure.status = 403 -> <<"A","c","c","e","s","s"," ","f","o","r","b","i","d","d","e","n","."," ","C","h","e","c","k"," ","A","P","I"," ","s","u","b","s","c","r","i","p","t","i","o","n">>
                [] failure.status = 404 -> <<"R","e","s","o","u","r","c","e"," ","n","o","t"," ","f","o","u","n","d",":"," ">> \o Endpoint(call)
                [] failure.status = 429 -> <<"R","a","t","e"," ","l","i","m","i","t"," ","e","x","c","e","e","d","e","d">>
                [] OTHER -> <<"H","T","T","P"," ","e","r","r","o","r"," ">> \o IntStr(failure.status) \o <<":"," ","s","t","a","t","u","s"," ","e","r","r","o","r">>)
      [] failure.kind = "other" ->
           HTTPException(500, <<"U","n","e","x","p","e","c","t","e","d"," ","e","r","r","o","r",":"," ","c","o","n","n","e","c","t","i","o","n"," ","f","a","i","l","e","d">>)

(* str(e) of an HTTPException: "<status_code>: <detail>".                  *)
ExcStr(e) == IntStr(e.status_code) \o <<":"," ">> \o e.detail

(* ------------------------------------------------- the query orchestrator *)
(* _fetch_relevant_data, lines 85-106: the NFLService method awaited.      *)
GatewayCall(query_type, params) ==
    CASE query_type = "player_rankings" -> Call(f_get_teams, <<>>, <<>>)
      [] query_type = "matchups" -> Call(f_get_schedule, <<PyInt(2023), PyStr(<<"R","E","G">>)>>, <<>>)
      [] query_type = "injuries" ->
           Call(f_get_weekly_injuries,
                <<Get(params, <<"y","e","a","r">>, PyStr(<<"2","0","2","3">>)), PyStr(<<"R","E","G">>), PyStr(<<"1">>)>>, <<>>)
      [] query_type = "schedule" -> Call(f_get_schedule, <<PyInt(2023), PyStr(<<"R","E","G">>)>>, <<>>)
      [] query_type = "depth_chart" -> Call(f_get_teams, <<>>, <<>>)
      [] OTHER -> Call(f_get_teams, <<>>, <<>>)

get_data_sources(query_type) ==
    CASE query_type = "player_rankings" -> <<"NFL team and player data">>
      [] query_type = "matchups" -> <<"NFL schedule data">>
      [] query_type = "injuries" -> <<"NFL injury reports">>
      [] query_type = "schedule" -> <<"NFL team schedules">>
      [] query_type = "depth_chart" -> <<"NFL team rosters">>
      [] query_type = "general" -> <<"NFL general data">>
      [] OTHER -> <<"NFL API data">>

ErrorContextReraised(e) == e

(* Line 110: what the except clause returns for the exception `e`.         *)
ErrorContext(e) == PyDict(<<<<"e","r","r","o","r">>>>, <<PyStr(ExcStr(e))>>)

CacheAfterQueryFetchStored(call, payload) ==
    Store(CacheKey(call), [ts |-> now, value |-> payload])

(* The cache after _fetch_relevant_data got its data: the service methods  *)
(* are called directly, nothing is stored.                                 *)
CacheAfterQueryFetch(call, payload) == cache

QueryQuestions ==
    { <<"T","o","p"," ","Q","B","s","?">>, <<"W","h","o"," ","i","s"," ","p","l","a","y","i","n","g","?">>, <<"I","n","j","u","r","y"," ","l","i","s","t"," ","2","0","2","4">>, <<"W","h","o"," ","i","s"," ","h","u","r","t","?">>,
      <<"P","a","c","k","e","r","s"," ","s","c","h","e","d","u","l","e">>, <<"C","o","w","b","o","y","s"," ","r","o","s","t","e","r">>, <<"H","e","l","l","o">> }

SchedulePayload ==
    PyDict(<<<<"s","c","h","e","d","u","l","e">>, <<"y","e","a","r">>, <<"g","a","m","e","s">>>>, <<EmptyDict, PyInt(2023), PyList(<<Rich>>)>>)

QueryPayloads == {SchedulePayload, EmptyDict, PyList(<<Rich>>)}

(* process_query, lines 27-28 up to the upstream request: classify, pick   *)
(* the gateway call, send the request.                                     *)
QueryStart(query) ==
    /\ req.pc \in {"idle", "done", "raised"}
    /\ LET c == classify_query(query) IN
       req' = [NoRequest EXCEPT !.pc = "fetching", !.query = query,
                                !.query_type = c.query_type, !.params = c.params,
                                !.call = GatewayCall(c.query_type, c.params),
                                !.stages = <<"classify", "fetch">>,
                                !.gateway = "pending"]
    /\ UNCHANGED <<cache, now, calls, last, cleared, input, output, prev>>

(* process_query from the data to the request of the generator: line 28    *)
(* returns, generate_response runs to line 58; an exception of lines 43-54 *)
(* leaves process_query.                                                   *)
AfterFetch(context_data, outcome) ==
    LET msg == ContextMessage(context_data) IN
    [req EXCEPT !.context_data = context_data,
                !.gateway = outcome,
                !.msg = msg,
                !.pc = IF msg.kind = "raise" THEN "raised" ELSE "generating",
                !.stages = @ \o (IF Truthy(context_data) THEN <<"summarize">> ELSE <<>>)
                             \o (IF msg.kind = "raise" THEN <<>> ELSE <<"generate">>)]

QueryFetchReturn(payload) ==
    /\ req.pc = "fetching"
    /\ req' = AfterFetch(payload, "ok")
    /\ cache' = CacheAfterQueryFetch(req.call, payload)
    /\ prev' = IF req'.pc = "raised" THEN NoPrev ELSE [call |-> req.call, at |-> now]
    /\ UNCHANGED <<now, calls, last, cleared, input, output>>

QueryFetchFail(failure) ==
    /\ req.pc = "fetching"
    /\ LET caught == ErrorContext(get_data_failure(req.call, failure)) IN
       IF Raised(caught)
       THEN req' = [req EXCEPT !.pc = "raised", !.gateway = "failed"]
       ELSE req' = AfterFetch(caught, "failed")
    /\ prev' = NoPrev
    /\ UNCHANGED <<cache, now, calls, last, cleared, input, output>>

Response(query, answer, query_type) ==
    [query |-> query, answer |-> answer, data_sources |-> get_data_sources(query_type)]

Finished(answer) ==
    [NoRequest EXCEPT !.pc = "done", !.stages = req.stages, !.gateway = req.gateway,
                      !.response = <<Response(req.query, answer, req.query_type)>>]

GeneratedTexts == {<<"B","a","s","e","d"," ","o","n"," ","o","f","f","i","c","i","a","l"," ","N","F","L"," ","d","a","t","a",".">>}
(* str(e) of what the request of lines 57-71 can raise: a timeout without  *)
(* a message, a status error, a body without `choices`.                    *)
GeneratorFailures == {<<>>, <<"t","i","m","e","o","u","t">>, <<"'","c","h","o","i","c","e","s","'">>}

(* Lines 68-71 and 33-37: the generator answered.                          *)
QueryGenReturn(text) ==
    /\ req.pc = "generating"
    /\ req' = [Finished(text) EXCEPT !.generator = "ok"]
    /\ UNCHANGED <<cache, now, calls, last, cleared, input, output, prev>>

(* Line 75: the answer returned for an exception whose str(e) is `error`.  *)
Apology == <<"S","o","r","r","y",","," ","I"," ","c","o","u","l","d","n","'","t"," ","p","r","o","c","e","s","s"," ","y","o","u","r"," ","r","e","q","u","e","s","t"," ","a","t"," ","t","h","e"," ","m","o","m","e","n","t","."," ","E","r","r","o","r",":"," ">>

FallbackAnswerFixed(error) == Apology

FallbackAnswer(error) == Apology \o error

(* Lines 73-75: any exception of the request becomes the apology.          *)
QueryGenFail(error) ==
    /\ req.pc = "generating"
    /\ req' = [Finished(FallbackAnswer(error)) EXCEPT !.generator = "failed", !.error = error]
    /\ UNCHANGED <<cache, now, calls, last, cleared, input, output, prev>>

InitQuery ==
    /\ InitShared
    /\ input = <<>>
    /\ output = <<>>

QueryRouteCalls ==
    {Call(f_get_schedule, <<>>, << <<<<"y","e","a","r">>, PyInt(2023)>>, <<<<"s","e","a","s","o","n","_","t","y","p","e">>, PyStr(<<"R","E","G">>)>> >>)}

NextQuery ==
    \/ \E query \in QueryQuestions : QueryStart(query)
    \/ \E payload \in QueryPayloads : QueryFetchReturn(payload)
    \/ \E failure \in Failures : QueryFetchFail(failure)
    \/ \E text \in GeneratedTexts : QueryGenReturn(text)
    \/ \E error \in GeneratorFailures : QueryGenFail(error)
    \/ \E call \in QueryRouteCalls : WrapperCall(1, call)
    \/ WrapperReturn(1, SchedulePayload)
    \/ clear_cache
    \/ \E t \in Instants : Tick(t)

Spec == InitQuery /\ [][NextQuery]_vars

(* ------------------------------------------------------------ the claims *)

(* `last` is the record of the step just taken: a lookup (hit or miss), a  *)
(* store, a raise, a clear or a tick.                                      *)
Lookup(e) == e.ev \in {"hit", "miss"}
Suspends(key) ==
    \E c \in Callers :
       /\ calls[c].pc = "idle"
       /\ calls'[c].pc = "awaiting"
       /\ CacheKey(calls'[c].call) = key
       /\ \A d \in Callers \ {c} : calls'[d] = calls[d]
Resumes(key) ==
    \E c \in Callers :
       /\ calls[c].pc = "awaiting"
       /\ CacheKey(calls[c].call) = key
       /\ calls'[c] = Idle
       /\ \A d \in Callers \ {c} : calls'[d] = calls[d]

(* C1: a cached call that meets an entry for its key with                  *)
(* now - createdAt < ttl does not invoke the wrapped function (no caller   *)
(* suspends on it), returns the value stored in that entry and leaves the  *)
(* cache as it is.                                                         *)
C1_CacheHit ==
    [][( /\ Lookup(last')
         /\ last'.key \in DOMAIN cache
         /\ now - cache[last'.key].ts < Expiry(last'.fn) )
       => /\ last'.ev = "hit"
          /\ last'.value = cache[last'.key].value
          /\ calls' = calls
          /\ cache' = cache]_vars

C1_Witness ==
    /\ last.ev = "hit"
    /\ last.key \in DOMAIN cache
    /\ cache[last.key].ts < now

(* C2: a lookup that meets an entry with now - createdAt >= ttl never      *)
(* returns it: the call invokes the wrapped function and suspends on it,   *)
(* and when that returns a value the entry becomes (now, value).           *)
C2_ExpiryInvariant ==
    [][/\ ( /\ Lookup(last')
            /\ last'.key \in DOMAIN cache
            /\ now - cache[last'.key].ts >= Expiry(last'.fn) )
          => /\ last'.ev = "miss"
             /\ Suspends(last'.key)
       /\ last'.ev = "stored"
          => /\ Resumes(last'.key)
             /\ last'.key \in DOMAIN cache'
             /\ cache'[last'.key] = [ts |-> now, value |-> last'.value]]_vars

C2_Witness ==
    /\ last.ev = "miss"
    /\ last.found = "expired"

(* C3: once clear_cache has run, the first call started afterwards for a   *)
(* key invokes the upstream fetch (it is a miss), whatever other calls     *)
(* were in flight when the clear ran.                                      *)
C3_ClearForcesFetch == last.first => last.ev = "miss"

C5_KeyDerivation ==
    output # <<>> =>
       ( (input[1].fn = input[2].fn /\ Bound(input[1]) = Bound(input[2]))
         <=> output[1] = output[2] )

(* The half of it that the key does give: calls that differ in operation   *)
(* or in an argument value never share a key.                              *)
KeysSeparateDifferentCalls ==
    output # <<>> =>
       ( output[1] = output[2]
         => (input[1].fn = input[2].fn /\ Bound(input[1]) = Bound(input[2])) )

Degraded(r) ==
    /\ r.pc = "generating"
    /\ r.context_data.t = "dict"
    /\ r.context_data.keys = <<<<"e","r","r","o","r">>>>

C7_DegradedAnswer ==
    [][/\ (req.pc = "fetching" /\ req'.gateway = "failed")
            => /\ Degraded(req')
               /\ req'.msg.kind = "context"
               /\ req'.stages = <<"classify", "fetch", "summarize", "generate">>
       /\ (Degraded(req) /\ req' # req)
            => /\ req'.pc = "done"
               /\ Len(req'.response) = 1
               /\ DOMAIN req'.response[1] = {"query", "answer", "data_sources"}
               /\ req'.response[1].query = req.query
               /\ req'.response[1].data_sources = get_data_sources(req.query_type)]_vars

C7_Witness ==
    /\ req.pc = "done"
    /\ req.gateway = "failed"
    /\ req.response # <<>>
    /\ req.response[1].data_sources = <<"NFL injury reports">>

(* C8: the intent is that of the lowest-numbered keyword group with a      *)
(* keyword occurring in the question, letter case ignored, and General     *)
(* when no group has one; a question in groups 2 and 4 is Matchups; a      *)
(* `year` parameter is present only when the intent is Injuries.           *)
OccursIgnoringCase(term, question) ==
    \E i \in 1..(Len(question) - Len(term) + 1) :
       \A j \in 1..Len(term) : LowerChar(question[i + j - 1]) = LowerChar(term[j])

KeywordGroups == <<RankingTerms, MatchupTerms, InjuryTerms, ScheduleTerms, DepthChartTerms>>
GroupIntent == <<"player_rankings", "matchups", "injuries", "schedule", "depth_chart">>

GroupMatches(g, question) == \E term \in KeywordGroups[g] : OccursIgnoringCase(term, question)

C8_FirstMatchPriority ==
    output # <<>> =>
       LET hits == {g \in 1..5 : GroupMatches(g, input)}
           result == output[1]
       IN  /\ hits = {} => result.query_type = "general"
           /\ hits # {} => result.query_type = GroupIntent[FirstOf(hits)]
           /\ ({2, 4} \subseteq hits /\ 1 \notin hits) => result.query_type = "matchups"
           /\ result.params # EmptyDict
                => result.query_type = "injuries" /\ result.params.keys = <<<<"y","e","a","r">>>>

C8_Witness ==
    /\ output # <<>>
    /\ GroupMatches(2, input) /\ GroupMatches(4, input) /\ ~GroupMatches(1, input)
    /\ output[1].query_type = "matchups"
    /\ \E i \in 1..Len(input) : input[i] # LowerChar(input[i])

(* C9: whatever JSON value the gateway hands over, building the context    *)
(* message (summarizing and serializing) raises no error: it yields a      *)
(* reduced context or a fallback bundle.                                   *)
C9_SummarizerNeverThrows == output # <<>> => output[1].kind # "raise"

(* On payloads that are mappings the summarizer does return a summary.     *)
SummarizerTotalOnMappings ==
    (output # <<>> /\ input.t = "dict") => output[1].kind # "raise"

(* C10: the context message is never longer than the ceiling, and when it  *)
(* was truncated the marker occurs in it exactly once, as its last         *)
(* characters.                                                             *)
MarkerPlaces(text) ==
    {i \in 1..(Len(text) - Len(TruncationMarker) + 1) :
        text[i] = "." /\ SubSeq(text, i, i + Len(TruncationMarker) - 1) = TruncationMarker}

C10_SizeCeiling ==
    (output # <<>> /\ output[1].kind = "context")
    => /\ Len(output[1].text) <= MaxContextChars
       /\ output[1].truncated
            => MarkerPlaces(output[1].text)
                 = {Len(output[1].text) - Len(TruncationMarker) + 1}

(* ------------------------------------------------------------------ C11 *)
(* The games a bundle's `schedule` mapping holds.                          *)
HeldGames(data) ==
    IF IsMapping(data, <<"s","c","h","e","d","u","l","e">>) /\ IsList(Item(data, <<"s","c","h","e","d","u","l","e">>), <<"g","a","m","e","s">>)
    THEN Item(Item(data, <<"s","c","h","e","d","u","l","e">>), <<"g","a","m","e","s">>).items
    ELSE <<>>

ReducedGame(game) ==
    PyDict(<<<<"i","d">>, <<"s","t","a","t","u","s">>, <<"s","c","h","e","d","u","l","e","d">>, <<"h","o","m","e","_","t","e","a","m">>, <<"a","w","a","y","_","t","e","a","m">>>>,
           <<Item(game, <<"i","d">>), Item(game, <<"s","t","a","t","u","s">>), Item(game, <<"s","c","h","e","d","u","l","e","d">>),
             PyDict(<<<<"n","a","m","e">>, <<"a","l","i","a","s">>>>,
                    <<Item(Item(game, <<"h","o","m","e">>), <<"n","a","m","e">>), Item(Item(game, <<"h","o","m","e">>), <<"a","l","i","a","s">>)>>),
             PyDict(<<<<"n","a","m","e">>, <<"a","l","i","a","s">>>>,
                    <<Item(Item(game, <<"a","w","a","y">>), <<"n","a","m","e">>), Item(Item(game, <<"a","w","a","y">>), <<"a","l","i","a","s">>)>>)>>)

ScheduleBundle(data) ==
    /\ data.t = "dict"
    /\ IsMapping(data, <<"s","c","h","e","d","u","l","e">>)
    /\ IsList(Item(data, <<"s","c","h","e","d","u","l","e">>), <<"g","a","m","e","s">>)
    /\ ~IsList(data, <<"t","e","a","m","s">>)
    /\ ~IsList(data, <<"c","o","n","f","e","r","e","n","c","e","s">>)

(* C11: for a bundle with a `schedule` mapping holding n games (and no     *)
(* `teams` or `conferences` list) the summary contains exactly min(n, 10)  *)
(* games, the first ones in order, each reduced to id, status, scheduled,  *)
(* home_team {name, alias} and away_team {name, alias} of that game.       *)
C11_ScheduleCap ==
    (output # <<>> /\ ScheduleBundle(input))
    => LET summary == summarize_context_data(input)
           n == Len(HeldGames(input))
       IN  /\ ~Raised(summary)
           /\ HasKey(summary, <<"g","a","m","e","s">>)
           /\ Item(summary, <<"g","a","m","e","s">>)
                = PyList([i \in 1..Min(n, 10) |-> ReducedGame(HeldGames(input)[i])])

(* What the code does keep: the first 10 entries of a top-level `games`    *)
(* list of the bundle, whatever the `schedule` mapping holds.              *)
ScheduleCapOnTopLevelGames ==
    ( /\ output # <<>>
      /\ input \in SchedulePayloads )
    => LET summary == summarize_context_data(input)
           games == Iter(Get(input, <<"g","a","m","e","s">>, EmptyList))
       IN  Item(summary, <<"g","a","m","e","s">>)
             = PyList([i \in 1..Min(Len(games), 10) |-> ReducedGame(games[i])])

(* ------------------------------------------------------------------ C12 *)
(* The bundle has `week` and `injuries` and no earlier branch of the       *)
(* dispatch order takes it.                                                *)
ReachesInjuryBranch(data) ==
    /\ data.t = "dict"
    /\ HasKey(data, <<"w","e","e","k">>)
    /\ HasKey(data, <<"i","n","j","u","r","i","e","s">>)
    /\ ~IsList(data, <<"t","e","a","m","s">>)
    /\ ~IsList(data, <<"c","o","n","f","e","r","e","n","c","e","s">>)
    /\ ~IsMapping(data, <<"s","c","h","e","d","u","l","e">>)

(* The teams of the bundle's injury report: the list the bundle carries    *)
(* under `teams` or, without one, under `injuries`.                        *)
ReportTeams(data) ==
    IF IsList(data, <<"t","e","a","m","s">>) THEN Item(data, <<"t","e","a","m","s">>).items
    ELSE IF IsList(data, <<"i","n","j","u","r","i","e","s">>) THEN Item(data, <<"i","n","j","u","r","i","e","s">>).items
    ELSE <<>>

ReducedPlayer(player) ==
    PyDict(<<<<"n","a","m","e">>, <<"p","o","s","i","t","i","o","n">>, <<"s","t","a","t","u","s">>, <<"i","n","j","u","r","y">>>>,
           <<Item(player, <<"n","a","m","e">>), Item(player, <<"p","o","s","i","t","i","o","n">>), Item(player, <<"s","t","a","t","u","s">>),
             Item(player, <<"i","n","j","u","r","y">>)>>)

KeptPlayers(team) ==
    LET players == Item(team, <<"p","l","a","y","e","r","s">>).items IN
    PyList([j \in 1..Min(Len(players), 10) |-> ReducedPlayer(players[j])])

(* C12: a bundle with `week` and `injuries` that reaches the injury branch *)
(* keeps the first min(n, 10) of its n injury-report teams and, for each,  *)
(* the first min(m, 10) of its m players, every player reduced to exactly  *)
(* name, position, status, injury.                                         *)
C12_InjurySummary ==
    ( /\ output # <<>>
      /\ input \in InjuryPayloads
      /\ ReachesInjuryBranch(input) )
    => LET summary == summarize_context_data(input)
           teams == ReportTeams(input)
           n == Len(teams)
       IN  /\ ~Raised(summary)
           /\ HasKey(summary, <<"t","e","a","m","s","_","w","i","t","h","_","i","n","j","u","r","i","e","s">>)
           /\ Item(summary, <<"t","e","a","m","s","_","w","i","t","h","_","i","n","j","u","r","i","e","s">>).t = "list"
           /\ LET kept == Item(summary, <<"t","e","a","m","s","_","w","i","t","h","_","i","n","j","u","r","i","e","s">>).items IN
              /\ Len(kept) = Min(n, 10)
              /\ \A i \in 1..Len(kept) : Item(kept[i], <<"i","n","j","u","r","i","e","s">>) = KeptPlayers(teams[i])

(* What the injury branch can produce: a bundle only reaches it without a  *)
(* list under `teams`, and `teams` is the one field line 194 reads, so the *)
(* summary is the fallback or has no team at all.                          *)
InjuryBranchKeepsNoTeam ==
    (output # <<>> /\ ReachesInjuryBranch(input))
    => LET summary == summarize_context_data(input) IN
       \/ summary = Fallback(<<"I","n","j","u","r","y"," ","d","a","t","a"," ","a","v","a","i","l","a","b","l","e"," ","b","u","t"," ","c","o","u","l","d"," ","n","o","t"," ","b","e"," ","s","u","m","m","a","r","i","z","e","d">>)
       \/ /\ HasKey(summary, <<"t","e","a","m","s","_","w","i","t","h","_","i","n","j","u","r","i","e","s">>)
          /\ Item(summary, <<"t","e","a","m","s","_","w","i","t","h","_","i","n","j","u","r","i","e","s">>) = EmptyList

(* A report whose teams are a list under `teams` takes the teams branch,   *)
(* which keeps no player.                                                  *)
TeamsListTakesTeamsBranch ==
    (output # <<>> /\ input.t = "dict" /\ IsList(input, <<"t","e","a","m","s">>))
    => summarize_context_data(input) = summarize_teams_data(input)

(* ------------------------------------------------------------------ C13 *)
(* The request to the generator failed and process_query returned.         *)
GenerationFailed == req.generator = "failed"

NonErrorResponse ==
    /\ req.pc = "done"
    /\ Len(req.response) = 1
    /\ req.response[1].query # <<>>
    /\ req.response[1].data_sources # <<>>

Stages == <<"classify", "fetch", "summarize", "generate">>

Ended == req.pc \in {"done", "raised"}

(* C14: every process_query call performs exactly one classification,     *)
(* then one gateway fetch, then one summarization, then one generator      *)
(* call, in that order, for every question and every gateway outcome       *)
(* (any payload, an empty one included, or a failure); no stage is         *)
(* repeated, skipped or retried.                                           *)
C14_PipelineShape ==
    /\ Ended => req.stages = Stages
    /\ ~Ended => /\ Len(req.stages) <= Len(Stages)
                 /\ req.stages = SubSeq(Stages, 1, Len(req.stages))

(* What does hold: the stages a call performs are stages of the pipeline   *)
(* in pipeline order, none twice, and classification and the fetch are     *)
(* always among them.                                                      *)
PipelineOrderKept ==
    /\ \A i \in 1..Len(req.stages) : \E k \in 1..Len(Stages) : req.stages[i] = Stages[k]
    /\ \A i, j \in 1..Len(req.stages) :
          i < j => \E k, l \in 1..Len(Stages) :
                      k < l /\ req.stages[i] = Stages[k] /\ req.stages[j] = Stages[l]
    /\ req.pc # "idle" => Len(req.stages) >= 2 /\ SubSeq(req.stages, 1, 2) = SubSeq(Stages, 1, 2)

(* The two ways a call leaves the pipeline's shape.                        *)
SummarizationSkipped ==
    Ended /\ req.gateway = "ok" /\ req.stages = <<"classify", "fetch", "generate">>
GenerationSkipped ==
    req.pc = "raised" /\ req.gateway = "ok" /\ req.stages = <<"classify", "fetch", "summarize">>

(* ------------------------------------------------------------------ C15 *)
(* C15: under every interleaving of concurrent cached calls each caller    *)
(* that misses returns the result of its own fetch; every entry of the     *)
(* shared map is a (timestamp, value) pair whose value was returned by a   *)
(* fetch made for exactly that key; and after racing misses on one key the *)
(* entry is the one written by whichever call stored last.                 *)
C15_RacingMisses ==
    [][/\ last'.ev = "stored"
          => /\ Resumes(last'.key)
             /\ last'.value \in Responses
             /\ DOMAIN cache' = DOMAIN cache \cup {last'.key}
             /\ cache'[last'.key] = [ts |-> now, value |-> last'.value]
       /\ \A k \in DOMAIN cache' :
             \/ k \in DOMAIN cache /\ cache'[k] = cache[k]
             \/ /\ last'.ev = "stored"
                /\ last'.key = k
                /\ Resumes(k)
                /\ cache'[k].value = last'.value
       /\ \A k \in DOMAIN cache' :
             /\ DOMAIN cache'[k] = {"ts", "value"}
             /\ cache'[k].ts \in Instants
             /\ cache'[k].value \in Responses
             /\ \E call \in RouteCalls : CacheKey(call) = k]_vars

(* Two calls missed on one key, one stored while the other was suspended,  *)
(* and the other has now stored a different value over it.                 *)
C15_Witness ==
    /\ last.ev = "stored"
    /\ last.found = "other"
    /\ last.key \in DOMAIN cache
    /\ cache[last.key] = [ts |-> now, value |-> last.value]

====
